---------------------------- MODULE Spec2Model ----------------------------
(***************************************************************************)
(* A model of fix-mp3-tag (src/fix-mp3-tag.go): the goodness scorer        *)
(* countCyr, the pipeline executor decode, the field selector              *)
(* extractFrames, the candidate search and resolution policy of            *)
(* convertFrames, and the driver main / processFile / saveFrames.          *)
(*                                                                         *)
(* A Go string is a sequence of bytes (0..255).  The text transforms of    *)
(* golang.org/x/text (UTF8Validator, the Windows-1251 decoder and encoder, *)
(* the ISO 8859-1 encoder) are computed byte by byte, as the library does. *)
(* A goodness value float64(good)/float64(total) is kept as the exact      *)
(* fraction [num, den]; the threshold, a float64 flag, is kept in          *)
(* thousandths or is NaN, which flag.Float64 accepts.  For the             *)
(* small totals reached here two float64 quotients compare exactly as the  *)
(* fractions do, and a quotient equals a parsed decimal literal exactly    *)
(* when the fraction equals it.                                            *)
(***************************************************************************)
EXTENDS Integers, Sequences, FiniteSets, TLC

VARIABLES
    pc,          \* position of the program (or of the function under study)
    threshold,   \* flag -t: a float64, in thousandths or NaN
    doWrite,     \* flag -w
    args,        \* flag.Args(): the targets, in order
    idx,         \* index in args of the target being processed
    disk,        \* the stored containers: path -> [openOk, tag]
    disk0,       \* the containers as they were when the program started
    tag,         \* the tag opened by processFile: key -> sequence of framers
    frames,      \* result of extractFrames: key -> text frame
    conv,        \* result of convertFrames: [out, warn]
    processed,   \* the targets processFile was called with, in call order
    exitStatus,  \* process exit status, -1 while running
    src,         \* argument of countCyr / decode when studied alone
    ci,          \* index in combinations of the pipeline studied alone
    score,       \* result of countCyr(src)
    dres,        \* result of decode(src, combinations[ci].tlist)
    orig         \* the text T a mis-encoded field was built from

vars == <<pc, threshold, doWrite, args, idx, disk, disk0, tag, frames, conv,
          processed, exitStatus, src, ci, score, dres, orig>>

-----------------------------------------------------------------------------
(* UTF-8, as unicode/utf8 decodes and encodes it.                          *)

IsCont(b) == b >= 128 /\ b <= 191

\* Accepted range of the second byte of a 3- or 4-byte sequence led by b0.
SecondLo(b0) == IF b0 = 224 THEN 160 ELSE IF b0 = 240 THEN 144 ELSE 128
SecondHi(b0) == IF b0 = 237 THEN 159 ELSE IF b0 = 244 THEN 143 ELSE 191

\* utf8.DecodeRune(s[i:]): the rune and its width; (RuneError, 1) when the
\* bytes at i are not a well-formed sequence.
DecodeRune(s, i) ==
    IF s[i] < 128 THEN [r |-> s[i], size |-> 1]
    ELSE IF s[i] >= 194 /\ s[i] <= 223 THEN
        IF Len(s) - i + 1 >= 2 /\ IsCont(s[i + 1])
        THEN [r |-> (s[i] - 192) * 64 + (s[i + 1] - 128), size |-> 2]
        ELSE [r |-> 65533, size |-> 1]
    ELSE IF s[i] >= 224 /\ s[i] <= 239 THEN
        IF /\ Len(s) - i + 1 >= 3
           /\ s[i + 1] >= SecondLo(s[i]) /\ s[i + 1] <= SecondHi(s[i])
           /\ IsCont(s[i + 2])
        THEN [r |-> (s[i] - 224) * 4096 + (s[i + 1] - 128) * 64
                    + (s[i + 2] - 128),
              size |-> 3]
        ELSE [r |-> 65533, size |-> 1]
    ELSE IF s[i] >= 240 /\ s[i] <= 244 THEN
        IF /\ Len(s) - i + 1 >= 4
           /\ s[i + 1] >= SecondLo(s[i]) /\ s[i + 1] <= SecondHi(s[i])
           /\ IsCont(s[i + 2]) /\ IsCont(s[i + 3])
        THEN [r |-> (s[i] - 240) * 262144 + (s[i + 1] - 128) * 4096
                    + (s[i + 2] - 128) * 64 + (s[i + 3] - 128),
              size |-> 4]
        ELSE [r |-> 65533, size |-> 1]
    ELSE [r |-> 65533, size |-> 1]

\* The rune d decoded at i is invalid UTF-8: a byte >= 0x80 read with width 1.
Invalid(s, i, d) == s[i] >= 128 /\ d.size = 1

\* utf8.EncodeRune.
EncodeRune(r) ==
    IF r < 128 THEN <<r>>
    ELSE IF r < 2048 THEN <<192 + (r \div 64), 128 + (r % 64)>>
    ELSE IF r < 65536
    THEN <<224 + (r \div 4096), 128 + ((r \div 64) % 64), 128 + (r % 64)>>
    ELSE <<240 + (r \div 262144), 128 + ((r \div 4096) % 64),
           128 + ((r \div 64) % 64), 128 + (r % 64)>>

RECURSIVE ValidFrom(_, _)
ValidNext(s, i, d) == IF Invalid(s, i, d) THEN FALSE ELSE ValidFrom(s, i + d.size)
ValidFrom(s, i) == IF i > Len(s) THEN TRUE ELSE ValidNext(s, i, DecodeRune(s, i))

\* encoding.UTF8Validator.Transform(s, s, true) returns no error.
ValidUTF8(s) == ValidFrom(s, 1)

\* The runes `for _, c := range s` yields.
RECURSIVE RunesFrom(_, _)
RunesNext(s, i, d) == <<d.r>> \o RunesFrom(s, i + d.size)
RunesFrom(s, i) == IF i > Len(s) THEN <<>> ELSE RunesNext(s, i, DecodeRune(s, i))

Runes(s) == RunesFrom(s, 1)

RECURSIVE EncodeRunes(_)
EncodeRunes(rs) ==
    IF rs = <<>> THEN <<>> ELSE EncodeRune(Head(rs)) \o EncodeRunes(Tail(rs))

-----------------------------------------------------------------------------
(* Goodness, exact fractions.                                              *)

\* A float64 flag value: m thousandths, or NaN.
Float(m) == [nan |-> FALSE, milli |-> m]
NaN == [nan |-> TRUE, milli |-> 0]

\* a < b on float64: false when either side is NaN.
FloatLess(a, b) == ~a.nan /\ ~b.nan /\ a.milli < b.milli

Rat(n, d) == [num |-> n, den |-> d]
RatEq(a, b) == a.num * b.den = b.num * a.den
RatLess(a, b) == a.num * b.den < b.num * a.den
\* a < t/1000
BelowThreshold(a, t) == ~t.nan /\ a.num * 1000 < t.milli * a.den

\* The switch of countCyr: ascii, basic russian, yo.
GoodRune(c) ==
    \/ 0 <= c /\ c <= 127
    \/ 1040 <= c /\ c <= 1103
    \/ c = 1025 \/ c = 1105

NumBad(rs) == Cardinality({k \in 1..Len(rs) : ~GoodRune(rs[k])})

\* float64(total-bad) / float64(total) over the runes of s; 1 when total = 0.
ratio(rs) ==
    IF Len(rs) = 0 THEN Rat(1, 1) ELSE Rat(Len(rs) - NumBad(rs), Len(rs))

\* countCyr without the check that the input is UTF-8.
countCyrUnchecked(s) == ratio(Runes(s))

countCyr(s) == IF ~ValidUTF8(s) THEN Rat(0, 1) ELSE ratio(Runes(s))

-----------------------------------------------------------------------------
(* The transforms of golang.org/x/text/encoding/charmap.                   *)

\* charmap.Windows1251: the runes of bytes 0x80..0xFF (0x98 is unassigned
\* and decodes to U+FFFD).
Windows1251Hi ==
    <<1026, 1027, 8218, 1107, 8222, 8230, 8224, 8225,
      8364, 8240, 1033, 8249, 1034, 1036, 1035, 1039,
      1106, 8216, 8217, 8220, 8221, 8226, 8211, 8212,
      65533, 8482, 1113, 8250, 1114, 1116, 1115, 1119,
      160, 1038, 1118, 1032, 164, 1168, 166, 167,
      1025, 169, 1028, 171, 172, 173, 174, 1031,
      176, 177, 1030, 1110, 1169, 181, 182, 183,
      1105, 8470, 1108, 187, 1112, 1029, 1109, 1111,
      1040, 1041, 1042, 1043, 1044, 1045, 1046, 1047,
      1048, 1049, 1050, 1051, 1052, 1053, 1054, 1055,
      1056, 1057, 1058, 1059, 1060, 1061, 1062, 1063,
      1064, 1065, 1066, 1067, 1068, 1069, 1070, 1071,
      1072, 1073, 1074, 1075, 1076, 1077, 1078, 1079,
      1080, 1081, 1082, 1083, 1084, 1085, 1086, 1087,
      1088, 1089, 1090, 1091, 1092, 1093, 1094, 1095,
      1096, 1097, 1098, 1099, 1100, 1101, 1102, 1103>>

\* The rune a Windows-1251 byte decodes to.
Win1251Rune(b) == IF b < 128 THEN b ELSE Windows1251Hi[b - 127]

\* The runes that have a byte above 0x7F in Windows-1251, and that byte.
Win1251Runes == {Windows1251Hi[k] : k \in 1..128} \ {65533}

Win1251Index ==
    [r \in Win1251Runes |-> 127 + (CHOOSE k \in 1..128 : Windows1251Hi[k] = r)]

\* The byte a rune encodes to in Windows-1251, -1 when it has none.
Win1251Byte(r) ==
    IF r < 128 THEN r
    ELSE IF r \in Win1251Runes THEN Win1251Index[r]
    ELSE -1

\* The byte a rune encodes to in ISO 8859-1, -1 when it has none.
ISO8859Byte(r) == IF r <= 255 THEN r ELSE -1

\* The byte of rune r under encoder f ("enc" or "iso").
CharmapByte(f, r) == IF f = "enc" THEN Win1251Byte(r) ELSE ISO8859Byte(r)

\* charmapDecoder.Transform: every byte decodes, none fails.
RECURSIVE DecoderTransform(_, _)
DecoderTransform(s, i) ==
    IF i > Len(s) THEN <<>>
    ELSE EncodeRune(Win1251Rune(s[i])) \o DecoderTransform(s, i + 1)

\* charmapEncoder.Transform at end of input: the bytes written before the
\* first rune that is invalid UTF-8 or has no byte in the charmap.
RECURSIVE EncoderTransform(_, _, _)
EncoderWrite(b, rest) == [dst |-> <<b>> \o rest.dst, err |-> rest.err]
EncoderByte(f, s, i, d, b) ==
    IF b < 0 THEN [dst |-> <<>>, err |-> TRUE]
    ELSE EncoderWrite(b, EncoderTransform(f, s, i + d.size))
EncoderRune(f, s, i, d) ==
    IF Invalid(s, i, d) THEN [dst |-> <<>>, err |-> TRUE]
    ELSE EncoderByte(f, s, i, d, CharmapByte(f, d.r))
EncoderTransform(f, s, i) ==
    IF i > Len(s) THEN [dst |-> <<>>, err |-> FALSE]
    ELSE EncoderRune(f, s, i, DecodeRune(s, i))

\* Encoder.String: the empty string together with the error.
EncoderString(t) ==
    IF t.err THEN [dst |-> <<>>, err |-> TRUE] ELSE [dst |-> t.dst, err |-> FALSE]

\* StringTrans.String of the three transforms convertFrames builds:
\* "win" = Windows1251.NewDecoder(), "enc" = Windows1251.NewEncoder(),
\* "iso" = ISO8859_1.NewEncoder().
String(f, s) ==
    IF f = "win" THEN [dst |-> DecoderTransform(s, 1), err |-> FALSE]
    ELSE EncoderString(EncoderTransform(f, s, 1))

-----------------------------------------------------------------------------
(* decode: apply a number of transformations to the string.                *)

\* len(src) > RetryMinLen guards the retry.
RetryMinLen == 4

\* The retry guarded by the number of characters instead of bytes.
retriesByChars(s, r1) == r1.err /\ Len(Runes(s)) > RetryMinLen

\* err != nil && len(src) > 4, for the result r1 of f.String(src)
retries(s, r1) == r1.err /\ Len(s) > RetryMinLen

\* src2 := src[0 : len(src)-1]
stripped(s) == SubSeq(s, 1, Len(s) - 1)

\* One iteration of the loop of decode on working string s, and what it
\* leaves:
\*   dst, err   the variables dst and err after the if statement,
\*   ret        the iteration executed `return "", err`,
\*   first      the error of the first call f.String(s),
\*   retried    the second call was made; arg is the argument of the last call.
stepRetried(f, s, src2, r2) ==
    [f |-> f, in |-> s, first |-> TRUE, retried |-> TRUE, arg |-> src2,
     dst |-> r2.dst, err |-> r2.err, ret |-> r2.err]

stepFirst(f, s, r1) ==
    IF retries(s, r1)
    THEN stepRetried(f, s, stripped(s), String(f, stripped(s)))
    ELSE [f |-> f, in |-> s, first |-> r1.err, retried |-> FALSE, arg |-> s,
          dst |-> r1.dst, err |-> r1.err, ret |-> FALSE]

decodeStep(f, s) == stepFirst(f, s, String(f, s))

\* decode(src, tlist...) from step i on; steps lists the iterations executed.
RECURSIVE decodeFrom(_, _, _, _)
decodeNext(tlist, i, done, st) ==
    IF st.ret THEN [val |-> <<>>, err |-> TRUE, steps |-> Append(done, st)]
    ELSE decodeFrom(st.dst, tlist, i + 1, Append(done, st))
decodeFrom(s, tlist, i, done) ==
    IF i > Len(tlist) THEN [val |-> s, err |-> FALSE, steps |-> done]
    ELSE decodeNext(tlist, i, done, decodeStep(tlist[i], s))

decode(s, tlist) == decodeFrom(s, tlist, 1, <<>>)

\* The pipelines with the steps of "iso-win" in the wrong order.
combinationsSwapped ==
    <<[name |-> "win", tlist |-> <<"win">>],
      [name |-> "enc-iso-win", tlist |-> <<"enc", "iso", "win">>],
      [name |-> "iso-win", tlist |-> <<"win", "iso">>],
      [name |-> "iso", tlist |-> <<"iso">>]>>

\* The four pipelines of convertFrames, in the order they are tried.
combinations ==
    <<[name |-> "win", tlist |-> <<"win">>],
      [name |-> "enc-iso-win", tlist |-> <<"enc", "iso", "win">>],
      [name |-> "iso-win", tlist |-> <<"iso", "win">>],
      [name |-> "iso", tlist |-> <<"iso">>]>>

-----------------------------------------------------------------------------
(* strings.TrimSpace.                                                      *)

\* unicode.IsSpace.
IsSpace(r) ==
    \/ r \in {9, 10, 11, 12, 13, 32, 133, 160, 5760}
    \/ r >= 8192 /\ r <= 8202
    \/ r \in {8232, 8233, 8239, 8287, 12288}

\* utf8.DecodeLastRune(p): the search for the start byte goes back at most
\* utf8.UTFMax bytes.
RECURSIVE RuneStartBack(_, _, _)
RuneStartBack(p, k, lim) ==
    IF k < lim THEN (IF k < 1 THEN 1 ELSE k)
    ELSE IF ~IsCont(p[k]) THEN k
    ELSE RuneStartBack(p, k - 1, lim)

LastRuneAt(p, start, d) ==
    IF start + d.size - 1 # Len(p) THEN [r |-> 65533, size |-> 1] ELSE d

LastRuneFrom(p, start) == LastRuneAt(p, start, DecodeRune(p, start))

DecodeLastRune(p) ==
    IF p[Len(p)] < 128 THEN [r |-> p[Len(p)], size |-> 1]
    ELSE LastRuneFrom(p, RuneStartBack(p, Len(p) - 1,
                                        IF Len(p) < 4 THEN 1 ELSE Len(p) - 3))

\* indexFunc(s, unicode.IsSpace, false), from position i: the position of
\* the first rune that is no space, Len(s) + 1 when there is none.
RECURSIVE FirstNonSpace(_, _)
FirstNext(s, i, d) == IF ~IsSpace(d.r) THEN i ELSE FirstNonSpace(s, i + d.size)
FirstNonSpace(s, i) == IF i > Len(s) THEN i ELSE FirstNext(s, i, DecodeRune(s, i))

\* lastIndexFunc(s[0:n], unicode.IsSpace, false): the position of the last
\* rune that is no space, 0 when there is none.
RECURSIVE LastNonSpace(_, _)
LastNext(s, n, d) ==
    IF ~IsSpace(d.r) THEN n - d.size + 1 ELSE LastNonSpace(s, n - d.size)
LastNonSpace(s, n) ==
    IF n = 0 THEN 0 ELSE LastNext(s, n, DecodeLastRune(SubSeq(s, 1, n)))

TrimLeft(s) == SubSeq(s, FirstNonSpace(s, 1), Len(s))

\* TrimRightFunc, given the position i of the last rune that is no space.
CutRight(s, i) ==
    IF i = 0 THEN <<>>
    ELSE IF s[i] >= 128 THEN SubSeq(s, 1, i + DecodeRune(s, i).size - 1)
    ELSE SubSeq(s, 1, i)

TrimRight(s) == CutRight(s, LastNonSpace(s, Len(s)))

TrimSpace(s) == TrimRight(TrimLeft(s))

-----------------------------------------------------------------------------
(* extractFrames: the field selector.                                      *)

\* A framer is [kind, enc, text]: kind "text" is an id3v2.TextFrame, any
\* other kind fails the type assertion.  enc is "ISO", "UTF16" or "UTF8".

\* countCyr(strings.TrimSpace(tf.Text)) >= 1
alreadyCorrect(text) == ~RatLess(countCyr(TrimSpace(text)), Rat(1, 1))

\* The loop over the framers leaving at the first non-empty framer, eligible
\* or not.
RECURSIVE selectFrameFirstOnly(_, _)
selectFrameFirstOnly(framers, i) ==
    IF i > Len(framers) THEN 0
    ELSE IF framers[i].kind # "text" THEN 0
    ELSE IF framers[i].text = <<>> THEN selectFrameFirstOnly(framers, i + 1)
    ELSE IF framers[i].enc # "ISO" THEN 0
    ELSE IF alreadyCorrect(framers[i].text) THEN 0
    ELSE i

\* The loop over the framers of one key, from framer i on: the index of the
\* framer stored in out[key], 0 when none is stored.
RECURSIVE selectFrame(_, _)
selectFrame(framers, i) ==
    IF i > Len(framers) THEN 0
    ELSE IF framers[i].kind # "text" THEN 0
    ELSE IF framers[i].text = <<>> THEN selectFrame(framers, i + 1)
    ELSE IF framers[i].enc # "ISO" THEN selectFrame(framers, i + 1)
    ELSE IF alreadyCorrect(framers[i].text) THEN selectFrame(framers, i + 1)
    ELSE i

\* The id3v2.TextFrame value of a framer.
TextFrame(fr) == [enc |-> fr.enc, text |-> fr.text]

extractFrames(t) ==
    [k \in {key \in DOMAIN t : selectFrame(t[key], 1) # 0} |->
        TextFrame(t[k][selectFrame(t[k], 1)])]

-----------------------------------------------------------------------------
(* convertFrames: candidate search and resolution policy.                  *)

\* best overwritten by every goodness.
updateBestAlways(best, goodness) == goodness

\* if goodness > best { best = goodness }
updateBest(best, goodness) == IF RatLess(best, goodness) THEN goodness ELSE best

\* The threshold test with the boundary excluded.
belowOrAtThreshold(goodness, thr) ==
    ~thr.nan /\ goodness.num * 1000 <= thr.milli * goodness.den

\* goodness < *threshold
belowThreshold(goodness, thr) == BelowThreshold(goodness, thr)

\* The loop over combinations from pipeline i on; acc holds best and newvals.
RECURSIVE search(_, _, _, _)
\* The rest of an iteration whose decode returned d without error.
searchScored(value, thr, i, acc, d, goodness) ==
    search(value, thr, i + 1,
           [best |-> updateBest(acc.best, goodness),
            newvals |-> IF belowThreshold(goodness, thr) THEN acc.newvals
                        ELSE Append(acc.newvals, d.val)])
searchTried(value, thr, i, acc, d) ==
    IF d.err THEN search(value, thr, i + 1, acc)
    ELSE searchScored(value, thr, i, acc, d, countCyr(d.val))
search(value, thr, i, acc) ==
    IF i > Len(combinations) THEN acc
    ELSE searchTried(value, thr, i, acc, decode(value, combinations[i].tlist))

\* One iteration of the loop over frames, up to the switch.
convertField(tf, thr) ==
    search(TrimSpace(tf.text), thr, 1, [best |-> Rat(0, 1), newvals |-> <<>>])

\* switch len(newvals): the frame is stored only in case 1.
accepted(newvals) == Len(newvals) = 1

\* The switch, for the search results r of every frame.  out is the returned
\* map; warn holds, for every other frame, the warning printed: the number of
\* results and the best goodness.
resolve(r) ==
    [out |-> [k \in {key \in DOMAIN r : accepted(r[key].newvals)} |->
                 [enc |-> "UTF8", text |-> r[k].newvals[1]]],
     warn |-> [k \in {key \in DOMAIN r : ~accepted(r[key].newvals)} |->
                 [n |-> Len(r[k].newvals), best |-> r[k].best]]]

convertFrames(fs, thr) ==
    resolve([k \in DOMAIN fs |-> convertField(fs[k], thr)])

\* saveFrames up to tag.Save(): tag.AddTextFrame replaces the framers of key.
addFrames(t, fs) ==
    [k \in (DOMAIN t) \cup (DOMAIN fs) |->
        IF k \in DOMAIN fs
        THEN <<[kind |-> "text", enc |-> fs[k].enc, text |-> fs[k].text]>>
        ELSE t[k]]

\* The test of main on the threshold: *threshold < 0.1 || *threshold > 1 has
\* to be false, as it is for NaN.
validThreshold(t) == ~(FloatLess(t, Float(100)) \/ FloatLess(Float(1000), t))

-----------------------------------------------------------------------------
(* Inputs.                                                                 *)

\* Longest text, in tokens, of a field or of an argument studied alone.
MaxLen == 3
\* Longest Cyrillic text T, in letters, of the round trip (besides Privet).
MaxText == 4
\* Longest list of targets.
MaxTargets == 2

\* Pieces of field text: "A", " ", "è" (U+00E8), "Ï" (U+00CF), "П" (U+041F),
\* a lone lead byte 0xD0, "£" (U+00A3), "™" (U+2122).
Tokens ==
    {<<65>>, <<32>>, <<195, 168>>, <<195, 143>>, <<208, 159>>, <<208>>,
     <<194, 163>>, <<226, 132, 162>>}

RECURSIVE TokenSeqs(_)
TokenSeqs(n) ==
    IF n = 0 THEN {<<>>}
    ELSE LET prev == TokenSeqs(n - 1)
         IN  prev \cup {s \o t : s \in prev, t \in Tokens}

Texts == TokenSeqs(MaxLen)

\* и, ш, Р, ё, Ё, я
Letters == {1080, 1096, 1056, 1105, 1025, 1103}

RECURSIVE LetterSeqs(_)
LetterSeqs(n) ==
    IF n = 0 THEN {<<>>}
    ELSE LET prev == LetterSeqs(n - 1)
         IN  prev \cup {s \o <<c>> : s \in prev, c \in Letters}

\* "Привет"
Privet == <<1055, 1088, 1080, 1074, 1077, 1090>>

CyrTexts == (LetterSeqs(MaxText) \ {<<>>}) \cup {Privet}

\* T encoded as Windows-1251 bytes.
RECURSIVE Win1251Bytes(_)
Win1251Bytes(rs) ==
    IF rs = <<>> THEN <<>>
    ELSE <<Win1251Byte(Head(rs))>> \o Win1251Bytes(Tail(rs))

\* The mis-encoded text M: the Windows-1251 bytes of T read as ISO 8859-1
\* (byte b is the rune b), as a UTF-8 string.
MisEncode(rs) == EncodeRunes(Win1251Bytes(rs))

TextFramer(enc, text) == [kind |-> "text", enc |-> enc, text |-> text]
OtherFramer == [kind |-> "other", enc |-> "ISO", text |-> <<>>]

\* A tag with the framers fs under the one key "TIT2".
OneKey(fs) == [k \in {"TIT2"} |-> fs]

Thresholds == {Float(100), Float(500), Float(1000)}

-----------------------------------------------------------------------------
(* The functions studied alone.                                            *)

IdleProgram ==
    /\ doWrite = FALSE /\ args = <<>> /\ idx = 0
    /\ disk = <<>> /\ disk0 = <<>> /\ processed = <<>> /\ exitStatus = -1

IdleField ==
    /\ tag = <<>> /\ frames = <<>> /\ conv = [out |-> <<>>, warn |-> <<>>]

IdleCalls ==
    /\ src = <<>> /\ ci = 1 /\ score = Rat(0, 1)
    /\ dres = [val |-> <<>>, err |-> FALSE, steps |-> <<>>]

InitCountCyr ==
    /\ pc = "countCyr"
    /\ src \in Texts
    /\ ci = 1 /\ score = Rat(0, 1)
    /\ dres = [val |-> <<>>, err |-> FALSE, steps |-> <<>>]
    /\ threshold = Float(1000) /\ orig = <<>>
    /\ IdleProgram /\ IdleField

CallCountCyr ==
    /\ pc = "countCyr"
    /\ score' = countCyr(src)
    /\ pc' = "scored"
    /\ UNCHANGED <<threshold, doWrite, args, idx, disk, disk0, tag, frames,
                   conv, processed, exitStatus, src, ci, dres, orig>>

SpecCountCyr == InitCountCyr /\ [][CallCountCyr]_vars

InitDecode ==
    /\ pc = "decode"
    /\ src \in Texts
    /\ ci \in 1..Len(combinations)
    /\ score = Rat(0, 1)
    /\ dres = [val |-> <<>>, err |-> FALSE, steps |-> <<>>]
    /\ threshold = Float(1000) /\ orig = <<>>
    /\ IdleProgram /\ IdleField

CallDecode ==
    /\ pc = "decode"
    /\ dres' = decode(src, combinations[ci].tlist)
    /\ pc' = "decoded"
    /\ UNCHANGED <<threshold, doWrite, args, idx, disk, disk0, tag, frames,
                   conv, processed, exitStatus, src, ci, score, orig>>

SpecDecode == InitDecode /\ [][CallDecode]_vars

-----------------------------------------------------------------------------
(* processFile, step by step.                                              *)

\* frames, err := extractFrames(tag)
Extract ==
    /\ pc = "opened"
    /\ frames' = extractFrames(tag)
    /\ pc' = "extracted"
    /\ UNCHANGED <<threshold, doWrite, args, idx, disk, disk0, tag, conv,
                   processed, exitStatus, src, ci, score, dres, orig>>

\* frames = convertFrames(frames)
Convert ==
    /\ pc = "extracted"
    /\ conv' = convertFrames(frames, threshold)
    /\ pc' = "converted"
    /\ UNCHANGED <<threshold, doWrite, args, idx, disk, disk0, tag, frames,
                   processed, exitStatus, src, ci, score, dres, orig>>

\* One field of an opened tag, any text: extractFrames, then convertFrames.
InitField ==
    /\ pc = "opened"
    /\ \E text \in Texts : tag = OneKey(<<TextFramer("ISO", text)>>)
    /\ threshold \in Thresholds
    /\ frames = <<>> /\ conv = [out |-> <<>>, warn |-> <<>>]
    /\ orig = <<>>
    /\ IdleProgram /\ IdleCalls

SpecField == InitField /\ [][Extract \/ Convert]_vars

\* The round trip: a field declared ISO whose text is MisEncode(T).
InitRoundTrip ==
    /\ pc = "opened"
    /\ orig \in CyrTexts
    /\ tag = OneKey(<<TextFramer("ISO", MisEncode(orig))>>)
    /\ threshold = Float(1000)
    /\ frames = <<>> /\ conv = [out |-> <<>>, warn |-> <<>>]
    /\ IdleProgram /\ IdleCalls

SpecRoundTrip == InitRoundTrip /\ [][Extract \/ Convert]_vars

\* The field selector alone: one key with up to MaxFrames framers, all of
\* one type (a key never mixes framer types).
MaxFrames == 3

\* Text framers: empty, "è" and "Ï" declared ISO, "A" declared ISO (already
\* correct), "è" declared UTF-8.
TextFramers ==
    {TextFramer("ISO", <<>>), TextFramer("ISO", <<195, 168>>),
     TextFramer("ISO", <<195, 143>>), TextFramer("ISO", <<65>>),
     TextFramer("UTF8", <<195, 168>>)}

RECURSIVE FramerSeqs(_, _)
FramerSeqs(S, n) ==
    IF n = 0 THEN {<<>>}
    ELSE LET prev == FramerSeqs(S, n - 1)
         IN  prev \cup {fs \o <<f>> : fs \in prev, f \in S}

FramerLists ==
    (FramerSeqs(TextFramers, MaxFrames) \cup FramerSeqs({OtherFramer}, MaxFrames))
        \ {<<>>}

InitExtract ==
    /\ pc = "opened"
    /\ \E fs \in FramerLists : tag = OneKey(fs)
    /\ threshold = Float(1000)
    /\ frames = <<>> /\ conv = [out |-> <<>>, warn |-> <<>>]
    /\ orig = <<>>
    /\ IdleProgram /\ IdleCalls

SpecExtract == InitExtract /\ [][Extract]_vars

-----------------------------------------------------------------------------
(* main.                                                                   *)

Paths == {"a.mp3", "b.mp3"}

RECURSIVE PathSeqs(_)
PathSeqs(n) ==
    IF n = 0 THEN {<<>>}
    ELSE LET prev == PathSeqs(n - 1)
         IN  prev \cup {ps \o <<p>> : ps \in prev, p \in Paths}

\* "Ïðèâåò": MisEncode(Privet)
PrivetMis == <<195, 143, 195, 176, 195, 168, 195, 162, 195, 165, 195, 178>>

\* The containers a target may name: one that does not open; a title to
\* recover beside a correct UTF-8 artist; a title "£"; a title "A£A£" and an
\* album "ß"; a title that is already correct; a title "ĀĀĀ", which only the
\* "win" pipeline converts.
Files ==
    {[openOk |-> FALSE, tag |-> <<>>],
     [openOk |-> TRUE,
      tag |-> [k \in {"TIT2", "TPE1"} |->
                  IF k = "TIT2" THEN <<TextFramer("ISO", PrivetMis)>>
                  ELSE <<TextFramer("UTF8", <<208, 159>>)>>]],
     [openOk |-> TRUE, tag |-> OneKey(<<TextFramer("ISO", <<194, 163>>)>>)],
     [openOk |-> TRUE,
      tag |-> [k \in {"TIT2", "TALB"} |->
                  IF k = "TIT2"
                  THEN <<TextFramer("ISO", <<65, 194, 163, 65, 194, 163>>)>>
                  ELSE <<TextFramer("ISO", <<195, 159>>)>>]],
     [openOk |-> TRUE, tag |-> OneKey(<<TextFramer("ISO", <<65>>)>>)],
     [openOk |-> TRUE,
      tag |-> OneKey(<<TextFramer("ISO", <<196, 128, 196, 128, 196, 128>>)>>)]}

\* Values of -t: 0.05, 0.1, 0.5, 1, 1.5 and NaN.
ThresholdFlags ==
    {Float(50), Float(100), Float(500), Float(1000), Float(1500), NaN}

Init ==
    /\ pc = "main"
    /\ threshold \in ThresholdFlags
    /\ doWrite \in BOOLEAN
    /\ args \in PathSeqs(MaxTargets)
    /\ disk \in [Paths -> Files]
    /\ disk0 = disk
    /\ idx = 0 /\ processed = <<>> /\ exitStatus = -1
    /\ orig = <<>>
    /\ IdleField /\ IdleCalls

\* main up to the loop: the threshold, then the targets.
Main ==
    /\ pc = "main"
    /\ IF ~validThreshold(threshold) \/ Len(args) = 0
       THEN pc' = "exit" /\ exitStatus' = 1 /\ idx' = idx
       ELSE pc' = "loop" /\ exitStatus' = exitStatus /\ idx' = 1
    /\ UNCHANGED <<threshold, doWrite, args, disk, disk0, tag, frames, conv,
                   processed, src, ci, score, dres, orig>>

\* The loop of main is over: main returns.
Return ==
    /\ pc = "loop" /\ idx > Len(args)
    /\ pc' = "exit" /\ exitStatus' = 0
    /\ UNCHANGED <<threshold, doWrite, args, idx, disk, disk0, tag, frames,
                   conv, processed, src, ci, score, dres, orig>>

\* A failed Open ending the run.
OpenFailAbort ==
    /\ pc = "loop" /\ idx <= Len(args)
    /\ ~disk[args[idx]].openOk
    /\ processed' = Append(processed, args[idx])
    /\ pc' = "exit" /\ exitStatus' = 1
    /\ UNCHANGED <<threshold, doWrite, args, idx, disk, disk0, tag, frames,
                   conv, src, ci, score, dres, orig>>

\* processFile(image): id3v2.Open fails; main reports it and goes on.
OpenFail ==
    /\ pc = "loop" /\ idx <= Len(args)
    /\ ~disk[args[idx]].openOk
    /\ processed' = Append(processed, args[idx])
    /\ idx' = idx + 1
    /\ UNCHANGED <<pc, threshold, doWrite, args, disk, disk0, tag, frames,
                   conv, exitStatus, src, ci, score, dres, orig>>

\* processFile(image): id3v2.Open parses the tag.
Open ==
    /\ pc = "loop" /\ idx <= Len(args)
    /\ disk[args[idx]].openOk
    /\ processed' = Append(processed, args[idx])
    /\ tag' = disk[args[idx]].tag
    /\ pc' = "opened"
    /\ UNCHANGED <<threshold, doWrite, args, idx, disk, disk0, frames, conv,
                   exitStatus, src, ci, score, dres, orig>>

\* len(frames) == 0, or !*doWrite: processFile returns nil.
NoWrite ==
    /\ pc = "converted"
    /\ DOMAIN conv.out = {} \/ ~doWrite
    /\ pc' = "loop" /\ idx' = idx + 1
    /\ tag' = <<>> /\ frames' = <<>> /\ conv' = [out |-> <<>>, warn |-> <<>>]
    /\ UNCHANGED <<threshold, doWrite, args, disk, disk0, processed,
                   exitStatus, src, ci, score, dres, orig>>

\* saveFrames called whatever the -w flag.
SaveUngated ==
    /\ pc = "converted"
    /\ DOMAIN conv.out # {}
    /\ \E saved \in BOOLEAN :
          disk' = IF saved
                  THEN [disk EXCEPT ![args[idx]].tag = addFrames(tag, conv.out)]
                  ELSE disk
    /\ pc' = "loop" /\ idx' = idx + 1
    /\ tag' = <<>> /\ frames' = <<>> /\ conv' = [out |-> <<>>, warn |-> <<>>]
    /\ UNCHANGED <<threshold, doWrite, args, disk0, processed, exitStatus,
                   src, ci, score, dres, orig>>

\* saveFrames(tag, frames): every frame is added, then tag.Save() stores the
\* tag or fails; a failure is reported and processFile returns nil.
Save ==
    /\ pc = "converted"
    /\ DOMAIN conv.out # {} /\ doWrite
    /\ \E saved \in BOOLEAN :
          disk' = IF saved
                  THEN [disk EXCEPT ![args[idx]].tag = addFrames(tag, conv.out)]
                  ELSE disk
    /\ pc' = "loop" /\ idx' = idx + 1
    /\ tag' = <<>> /\ frames' = <<>> /\ conv' = [out |-> <<>>, warn |-> <<>>]
    /\ UNCHANGED <<threshold, doWrite, args, disk0, processed, exitStatus,
                   src, ci, score, dres, orig>>

Next ==
    \/ Main \/ Return \/ OpenFail \/ Open \/ Extract \/ Convert
    \/ NoWrite \/ Save

Spec == Init /\ [][Next]_vars

\* The steps of main and processFile other than the two calls into the
\* frame functions.
Control == Main \/ Return \/ OpenFail \/ Open \/ NoWrite \/ Save

\* The program is one sequential process: a step of main or processFile that
\* can be taken is taken, and the loops of extractFrames and convertFrames
\* are finite, so processFile does not stay in either call.
FairSpec ==
    /\ Spec
    /\ WF_vars(Control)
    /\ []<>(pc # "opened")
    /\ []<>(pc # "extracted")

-----------------------------------------------------------------------------
(* Properties of countCyr (SpecCountCyr).                                  *)

\* s is well-formed UTF-8: it is the encoding of the scalars read from it.
WellFormed(s) == EncodeRunes(Runes(s)) = s

\* ASCII, U+0410..U+044F, U+0401 or U+0451.
AcceptedPoint(c) ==
    \/ c >= 0 /\ c <= 127
    \/ c >= 1040 /\ c <= 1103
    \/ c \in {1025, 1105}

AllAccepted(s) == \A k \in 1..Len(Runes(s)) : AcceptedPoint(Runes(s)[k])
NoneAccepted(s) == \A k \in 1..Len(Runes(s)) : ~AcceptedPoint(Runes(s)[k])

ScoreInRange == score.den > 0 /\ 0 <= score.num /\ score.num <= score.den
ScoreIsZero == score.num = 0
ScoreIsOne == score.num = score.den

\* C9 as stated: countCyr(s) lies in [0,1], is 0 exactly when s is not
\* well-formed UTF-8, and is 1 exactly when s is well-formed and every scalar
\* is accepted (the empty string included).
C9_ZeroOnlyIfMalformed ==
    pc = "scored" =>
        /\ ScoreInRange
        /\ ScoreIsZero <=> ~WellFormed(src)
        /\ ScoreIsOne <=> (WellFormed(src) /\ AllAccepted(src))

\* C9 amended: countCyr(s) lies in [0,1]; it is 0 exactly when s is not
\* well-formed UTF-8 or s is well-formed, not empty and holds no accepted
\* scalar; it is 1 exactly when s is well-formed and every scalar is accepted.
C9_ZeroAndOne ==
    pc = "scored" =>
        /\ ScoreInRange
        /\ ScoreIsZero <=>
              (~WellFormed(src) \/ (src # <<>> /\ NoneAccepted(src)))
        /\ ScoreIsOne <=> (WellFormed(src) /\ AllAccepted(src))

\* A well-formed text without any accepted scalar has been scored 0.
C9_Witness ==
    pc = "scored" /\ WellFormed(src) /\ src # <<>> /\ ScoreIsZero

-----------------------------------------------------------------------------
(* Properties of decode (SpecDecode).                                      *)

\* The number of characters of s.
Chars(s) == Len(Runes(s))

\* s without its last character.
WithoutLastChar(s) ==
    IF s = <<>> THEN <<>>
    ELSE SubSeq(s, 1, Len(s) - DecodeLastRune(s).size)

StepsChained ==
    /\ Len(dres.steps) <= Len(combinations[ci].tlist)
    /\ \A k \in 1..Len(dres.steps) :
          /\ dres.steps[k].f = combinations[ci].tlist[k]
          /\ dres.steps[k].in = IF k = 1 THEN src ELSE dres.steps[k - 1].dst

\* C10 as stated: a failing step is retried exactly when the working string
\* has more than 4 characters, once, on the working string without its last
\* whole character; with 4 or fewer characters there is no retry and the
\* step counts as failed.
C10_RetryByCharacters ==
    pc = "decoded" =>
        \A k \in 1..Len(dres.steps) :
            LET st == dres.steps[k]
            IN  /\ st.retried <=> (st.first /\ Chars(st.in) > 4)
                /\ st.retried => st.arg = WithoutLastChar(st.in)
                /\ (st.first /\ Chars(st.in) <= 4) => dres.err

\* C10 amended: a failing step is retried exactly when the working string is
\* longer than 4 bytes, once, on the working string without its last byte
\* (which may cut a character); a failed retry ends the pipeline with the
\* error.  With 4 or fewer bytes there is no retry, the error of the step is
\* dropped and the pipeline goes on with the empty string.
C10_RetryByBytes ==
    pc = "decoded" =>
        /\ StepsChained
        /\ \A k \in 1..Len(dres.steps) :
              LET st == dres.steps[k]
              IN  /\ st.retried <=> (st.first /\ Len(st.in) > 4)
                  /\ st.retried =>
                        /\ st.arg = SubSeq(st.in, 1, Len(st.in) - 1)
                        /\ st.ret = st.err
                        /\ st.ret => (dres.err /\ k = Len(dres.steps))
                  /\ (st.first /\ Len(st.in) <= 4) =>
                        (~st.ret /\ st.err /\ st.dst = <<>>)
                  /\ ~st.first => (~st.err /\ ~st.ret)
        /\ dres.err <=>
              (dres.steps # <<>> /\ dres.steps[Len(dres.steps)].ret)

\* A step failed on a string of more than 4 bytes and at most 4 characters,
\* and the retry without the last byte succeeded.
C10_Witness ==
    /\ pc = "decoded"
    /\ \E k \in 1..Len(dres.steps) :
          /\ dres.steps[k].retried /\ ~dres.steps[k].err
          /\ Chars(dres.steps[k].in) <= 4

-----------------------------------------------------------------------------
(* Properties of convertFrames (SpecField, SpecRoundTrip).                 *)

\* The text the pipelines of frame key are run on, pipeline i run on it, and
\* the goodness of its output.
Value(key) == TrimSpace(frames[key].text)
Pipe(key, i) == decode(Value(key), combinations[i].tlist)
Goodness(key, i) == countCyr(Pipe(key, i).val)

Pipelines == 1..Len(combinations)

\* Goodness a is at least threshold t; no goodness is at least NaN.
AtLeast(a, t) == ~t.nan /\ a.num * 1000 >= t.milli * a.den

\* The pipelines that returned without error, and those of them whose
\* goodness is at least the threshold.
Succeeded(key) == {i \in Pipelines : ~Pipe(key, i).err}
Qualifying(key) ==
    {i \in Succeeded(key) :
        AtLeast(Goodness(key, i), threshold)}

\* Some step of pipeline i ended with an error.
StepFailed(key, i) ==
    \E k \in 1..Len(Pipe(key, i).steps) : Pipe(key, i).steps[k].err

\* The number of results convertFrames found for frame key.
NumResults(key) ==
    IF key \in DOMAIN conv.out THEN 1 ELSE conv.warn[key].n

\* C1 as stated: a pipeline in which a step ended with an error returns an
\* error, is skipped by the search and contributes no candidate.
C1_FailedStepAborts ==
    pc = "converted" =>
        \A key \in DOMAIN frames :
            /\ \A i \in Pipelines : StepFailed(key, i) => Pipe(key, i).err
            /\ NumResults(key) =
                  Cardinality({i \in Qualifying(key) : ~StepFailed(key, i)})

\* C2: the Correction Set has an entry for a frame exactly when one pipeline
\* that returned without error reached the threshold (goodness equal to the
\* threshold included); the entry is UTF-8 with the text of that pipeline.
C2_ExactlyOneQualifies ==
    pc = "converted" =>
        /\ DOMAIN conv.out \subseteq DOMAIN frames
        /\ \A key \in DOMAIN frames :
              /\ key \in DOMAIN conv.out <=> Cardinality(Qualifying(key)) = 1
              /\ key \in DOMAIN conv.out =>
                    \A i \in Qualifying(key) :
                        conv.out[key] = [enc |-> "UTF8", text |-> Pipe(key, i).val]

\* A frame was corrected by a candidate whose goodness equals a threshold
\* below 1.
C2_Witness ==
    /\ pc = "converted" /\ FloatLess(threshold, Float(1000))
    /\ \E key \in DOMAIN conv.out :
          \E i \in Qualifying(key) :
              Goodness(key, i).num * 1000 = threshold.milli * Goodness(key, i).den

\* C4: the best value of a warning is the largest goodness among the
\* pipelines that returned without error, whatever the threshold, and 0 when
\* none did.
C4_BestIsMaximum ==
    pc = "converted" =>
        \A key \in DOMAIN conv.warn :
            IF Succeeded(key) = {} THEN conv.warn[key].best.num = 0
            ELSE /\ \E i \in Succeeded(key) :
                       RatEq(conv.warn[key].best, Goodness(key, i))
                 /\ \A i \in Succeeded(key) :
                       ~RatLess(conv.warn[key].best, Goodness(key, i))

\* A frame could not be converted, its best goodness is above 0 and was
\* reached by a pipeline that is not the last one to succeed.
C4_Witness ==
    /\ pc = "converted"
    /\ \E key \in DOMAIN conv.warn :
          /\ conv.warn[key].n = 0 /\ conv.warn[key].best.num > 0
          /\ \E i, j \in Succeeded(key) :
                i < j /\ RatLess(Goodness(key, j), Goodness(key, i))

\* C3 as stated: for every T of accepted Cyrillic letters the search on
\* MisEncode(T) with threshold 1.0 yields exactly one qualifying candidate,
\* T, from "iso-win" (pipeline 3); the other pipelines fail or score lower.
C3_AlwaysRecovered ==
    pc = "converted" =>
        /\ "TIT2" \in DOMAIN conv.out
        /\ conv.out["TIT2"].text = EncodeRunes(orig)
        /\ Qualifying("TIT2") = {3}

\* T is made only of the letters of S.
OnlyFrom(T, S) == \A k \in 1..Len(T) : T[k] \in S

\* T has at least three letters, is not made only of the letters и, ш, Ё, ё
\* and its Windows-1251 bytes are not themselves well-formed UTF-8 text of
\* accepted characters.
Recoverable(T) ==
    /\ Len(T) >= 3
    /\ ~OnlyFrom(T, {1080, 1096, 1025, 1105})
    /\ ~(WellFormed(Win1251Bytes(T)) /\ AllAccepted(Win1251Bytes(T)))

\* C3 amended: "iso-win" always returns T with goodness 1; it is the only
\* qualifying candidate, and T the correction, exactly when T is Recoverable,
\* as "Привет" is.  For T of one or two letters "enc-iso-win" (pipeline 2)
\* also qualifies, with the empty string.
C3_RecoveredWhenUnambiguous ==
    pc = "converted" =>
        /\ "TIT2" \in DOMAIN frames
        /\ ~Pipe("TIT2", 3).err
        /\ Pipe("TIT2", 3).val = EncodeRunes(orig)
        /\ 3 \in Qualifying("TIT2")
        /\ Recoverable(orig) <=> Qualifying("TIT2") = {3}
        /\ Recoverable(orig) <=> "TIT2" \in DOMAIN conv.out
        /\ "TIT2" \in DOMAIN conv.out =>
              conv.out["TIT2"] = [enc |-> "UTF8", text |-> EncodeRunes(orig)]
        /\ Len(orig) <= 2 =>
              (2 \in Qualifying("TIT2") /\ Pipe("TIT2", 2).val = <<>>)
        /\ orig = Privet => Recoverable(orig)

\* "Привет" has been recovered from "Ïðèâåò".
C3_Witness ==
    /\ pc = "converted" /\ orig = Privet
    /\ "TIT2" \in DOMAIN conv.out
    /\ conv.out["TIT2"].text = EncodeRunes(Privet)

-----------------------------------------------------------------------------
(* Properties of extractFrames (SpecExtract).                              *)

NonEmptyText(fr) == fr.kind = "text" /\ fr.text # <<>>

\* Declared ISO with a trimmed text that scores below 1.
Eligible(fr) ==
    /\ fr.enc = "ISO"
    /\ countCyr(TrimSpace(fr.text)).num < countCyr(TrimSpace(fr.text)).den

\* The first index of fs that satisfies P, 0 when there is none.
First(fs, P(_)) ==
    IF \E i \in 1..Len(fs) : P(fs[i])
    THEN CHOOSE i \in 1..Len(fs) : P(fs[i]) /\ \A j \in 1..(i - 1) : ~P(fs[j])
    ELSE 0

FirstNonEmpty(fs) == First(fs, NonEmptyText)

Convertible(fr) == NonEmptyText(fr) /\ Eligible(fr)
FirstConvertible(fs) == First(fs, Convertible)

\* C8 as stated: the frame considered for a name is the first one whose text
\* is not empty; when it is ineligible the name is excluded and no later
\* frame is selected in its place.
C8_FirstNonEmptyOnly ==
    pc = "extracted" =>
        \A key \in DOMAIN tag :
            IF FirstNonEmpty(tag[key]) # 0
               /\ Eligible(tag[key][FirstNonEmpty(tag[key])])
            THEN /\ key \in DOMAIN frames
                 /\ frames[key] = TextFrame(tag[key][FirstNonEmpty(tag[key])])
            ELSE key \notin DOMAIN frames

\* C8 amended: the frame selected for a name is the first text frame that is
\* not empty, is declared ISO and whose trimmed text scores below 1.0;
\* ineligible frames before it are passed over, and a name without such a
\* frame is excluded.  At most one frame per name is selected.
C8_FirstConvertible ==
    pc = "extracted" =>
        /\ DOMAIN frames \subseteq DOMAIN tag
        /\ \A key \in DOMAIN tag :
              IF tag[key][1].kind = "text" /\ FirstConvertible(tag[key]) # 0
              THEN /\ key \in DOMAIN frames
                   /\ frames[key] =
                         TextFrame(tag[key][FirstConvertible(tag[key])])
              ELSE key \notin DOMAIN frames

\* The first non-empty frame of a name was ineligible and a later frame of
\* the name has been selected.
C8_Witness ==
    /\ pc = "extracted"
    /\ \E key \in DOMAIN frames :
          /\ ~Eligible(tag[key][FirstNonEmpty(tag[key])])
          /\ FirstConvertible(tag[key]) > FirstNonEmpty(tag[key])
          /\ frames[key] = TextFrame(tag[key][FirstConvertible(tag[key])])

-----------------------------------------------------------------------------
(* Properties of main and processFile (Spec, FairSpec).                    *)

\* The threshold lies in [0.1, 1] and there is a target.
ValidConfig ==
    /\ ~threshold.nan /\ threshold.milli >= 100 /\ threshold.milli <= 1000
    /\ args # <<>>

\* The container of path p after a step differs from the one before only by
\* the frames of the Correction Set, each a UTF-8 text frame.
OnlyCorrectionsWritten(p) ==
    /\ disk'[p].openOk = disk[p].openOk
    /\ DOMAIN disk'[p].tag = (DOMAIN disk[p].tag) \cup (DOMAIN conv.out)
    /\ \A k \in DOMAIN disk'[p].tag :
          IF k \in DOMAIN conv.out
          THEN disk'[p].tag[k] = <<TextFramer("UTF8", conv.out[k].text)>>
          ELSE disk'[p].tag[k] = disk[p].tag[k]

\* The candidates of frame k: the qualifying pipelines; with the threshold
\* NaN, which main lets through, no goodness is below the threshold and every
\* pipeline that returned without error is a candidate.
Candidates(k) == IF threshold.nan THEN Succeeded(k) ELSE Qualifying(k)

\* C5: a container is modified only with the write flag set and a non-empty
\* Correction Set; what is written are the frames of the Correction Set, each
\* an accepted one with its corrected text, into the target being processed;
\* without the flag no container is ever modified.
C5_WriteGating ==
    /\ [](~doWrite => disk = disk0)
    /\ [][disk' # disk =>
            /\ doWrite
            /\ pc = "converted"
            /\ DOMAIN conv.out # {}
            /\ \A k \in DOMAIN conv.out :
                  /\ Cardinality(Candidates(k)) = 1
                  /\ \A i \in Candidates(k) : conv.out[k].text = Pipe(k, i).val
            /\ \A p \in Paths :
                  IF p = args[idx] THEN OnlyCorrectionsWritten(p)
                  ELSE disk'[p] = disk[p]]_vars

\* With the write flag a container has been modified.
C5_Witness == doWrite /\ disk # disk0

\* C6: with a threshold outside [0.1, 1] or without a target the process
\* exits with status 1 and nothing was opened or processed; with a threshold
\* of 0.1 or 1 and a target the run goes through all targets and exits 0.
C6_ValidationFirst ==
    /\ ~ValidConfig =>
          /\ pc \in {"main", "exit"}
          /\ pc = "exit" => exitStatus = 1
          /\ processed = <<>> /\ tag = <<>> /\ frames = <<>>
          /\ disk = disk0
    /\ (threshold \in {Float(100), Float(1000)} /\ args # <<>>) =>
          /\ exitStatus # 1
          /\ pc = "exit" => (exitStatus = 0 /\ processed = args)

\* C7: with a valid configuration the targets are processed once each, in
\* argument order, whatever happened to earlier ones, the run ends and its
\* exit status is 0.
C7_AllTargetsProcessed ==
    /\ [](processed = SubSeq(args, 1, Len(processed)))
    /\ [](ValidConfig => exitStatus # 1)
    /\ (pc = "main" /\ ValidConfig)
          ~> (pc = "exit" /\ exitStatus = 0 /\ processed = args)

\* A run whose first target did not open went on to the second and exited 0.
C7_Witness ==
    /\ pc = "exit" /\ exitStatus = 0 /\ processed = args
    /\ Len(args) >= 2
    /\ ~disk0[args[1]].openOk /\ disk0[args[2]].openOk

=============================================================================
